---- MODULE Spec2Model ----
(***************************************************************************)
(* Model of kernel/kernel.c: a terminal-style shell over an in-memory      *)
(* directory of MAX_FILES slots, each backed by pages obtained from        *)
(* kmalloc().  One action per input line handler; the helpers of the C     *)
(* file are operators computed the way the C computes them.                *)
(***************************************************************************)
EXTENDS Integers, Sequences, FiniteSets, TLC

VARIABLES
    pc,             \* "boot" before kernel_main, "ready" awaiting a line, "halted" after END
    g_dir,          \* the directory table: slot index -> FsEntry
    g_dir_addr,     \* value of the pointer g_dir (0 = null)
    free_mem_addr,  \* the page allocator's next free address
    mem_end,        \* first address past the memory the allocator may hand out
    input,          \* the line the last handler was given, as typed
    out             \* what the last handler passed to kprint, in order

vars == <<pc, g_dir, g_dir_addr, free_mem_addr, mem_end, input, out>>

-----------------------------------------------------------------------------
(* Program constants *)

MAX_FILES == 16
MAX_NAME == 16
P == 4096
PAGE_REQ == 1000
SIZEOF_FSENTRY == 36

(* Bounds of the model *)

MemPages == 3        \* pages of allocator memory in the free-form specification
FillMemPages == 18   \* pages of allocator memory in the fill scenario

-----------------------------------------------------------------------------
(* C strings.  A string is a sequence of one-character strings; a buffer   *)
(* is a string followed by the terminator NUL; a char* is an index into a  *)
(* buffer, 0 for the null pointer.  An optional string argument is <<>>    *)
(* (null pointer) or <<s>> (pointer to s).                                 *)

NUL == "NUL"
SP == " "

Lower == <<"a","b","c","d","e","f","g","h","i","j","k","l","m",
           "n","o","p","q","r","s","t","u","v","w","x","y","z">>
Upper == <<"A","B","C","D","E","F","G","H","I","J","K","L","M",
           "N","O","P","Q","R","S","T","U","V","W","X","Y","Z">>
Digits == <<"0","1","2","3","4","5","6","7","8","9">>
HexDigits == <<"0","1","2","3","4","5","6","7","8","9","A","B","C","D","E","F">>

IsDigit(c) == \E i \in 1..10 : Digits[i] = c
DigitVal(c) == (CHOOSE i \in 1..10 : Digits[i] = c) - 1

Min(a, b) == IF a < b THEN a ELSE b

RECURSIVE Str(_)
Str(s) == IF s = <<>> THEN "" ELSE Head(s) \o Str(Tail(s))

\* to_upper_inplace that stops at the end of the first word
to_upper_inplace_first_word(s) ==
    [i \in 1..Len(s) |->
        IF (\A j \in 1..i : s[j] # SP) /\ (\E k \in 1..26 : Lower[k] = s[i])
        THEN Upper[CHOOSE k \in 1..26 : Lower[k] = s[i]]
        ELSE s[i]]

\* to_upper_inplace: every 'a'..'z' becomes the letter at the same offset from 'A'
to_upper_inplace(s) ==
    [i \in 1..Len(s) |->
        IF \E k \in 1..26 : Lower[k] = s[i]
        THEN Upper[CHOOSE k \in 1..26 : Lower[k] = s[i]]
        ELSE s[i]]

\* next_token: skip spaces from p; null when p is null or the string ends there
RECURSIVE next_token(_, _)
next_token(buf, p) ==
    IF p # 0 /\ buf[p] = SP THEN next_token(buf, p + 1)
    ELSE IF p # 0 /\ buf[p] # NUL THEN p ELSE 0

\* cut_token: advance to the next space or the end; at the end return null, else
\* overwrite the space with NUL and return the position after it
RECURSIVE cut_token(_, _)
cut_token(buf, p) ==
    IF buf[p] # NUL /\ buf[p] # SP THEN cut_token(buf, p + 1)
    ELSE IF buf[p] = NUL THEN [buf |-> buf, p |-> 0]
    ELSE [buf |-> [buf EXCEPT ![p] = NUL], p |-> p + 1]

\* the C string that starts at index p of buf
RECURSIVE CStr(_, _)
CStr(buf, p) == IF buf[p] = NUL THEN <<>> ELSE <<buf[p]>> \o CStr(buf, p + 1)

NULL == <<>>
ArgAt(buf, p) == IF p = 0 THEN NULL ELSE <<CStr(buf, p)>>
IsNullOrEmpty(a) == a = NULL \/ a[1] = <<>>

strlen(s) == Len(s)
strcmp(a, b) == IF a = b THEN 0 ELSE 1

\* copy_bounded: at most maxlen - 1 characters of src, then the terminator
copy_bounded(dst, src, maxlen) ==
    IF maxlen <= 0 THEN dst
    ELSE SubSeq(src, 1, Min(Len(src), maxlen - 1))

-----------------------------------------------------------------------------
(* uint32_t, kept as two 16-bit halves so that every operation is computed *)
(* modulo 2^32.                                                            *)

H16 == 2^16

U32(hi, lo) == [hi |-> hi, lo |-> lo]
U32Of(n) == U32(n \div H16, n % H16)
Zero32 == U32(0, 0)

Add32(a, b) ==
    U32((a.hi + b.hi + ((a.lo + b.lo) \div H16)) % H16, (a.lo + b.lo) % H16)

\* v * 10 + d modulo 2^32
MulAdd10(v, d) ==
    U32((v.hi * 10 + ((v.lo * 10 + d) \div H16)) % H16, (v.lo * 10 + d) % H16)

\* n & ~(m - 1) for a power of two m <= 2^16: clear the low bits
AndNotLow(n, m) == U32(n.hi, n.lo - (n.lo % m))

Div10(v) ==
    U32(v.hi \div 10, (((v.hi % 10) * H16) + v.lo) \div 10)
Mod10(v) == (((v.hi % 10) * H16) + v.lo) % 10

Le32(a, b) == a.hi < b.hi \/ (a.hi = b.hi /\ a.lo <= b.lo)

\* parse_uint: skip spaces, then accumulate decimal digits; 0 when there is none
RECURSIVE parse_digits(_, _, _)
parse_digits(s, v, any) ==
    IF s # <<>> /\ IsDigit(Head(s))
    THEN parse_digits(Tail(s), MulAdd10(v, DigitVal(Head(s))), 1)
    ELSE IF any = 1 THEN v ELSE Zero32

RECURSIVE parse_uint(_)
parse_uint(s) ==
    IF s # <<>> /\ Head(s) = SP THEN parse_uint(Tail(s))
    ELSE parse_digits(s, Zero32, 0)

\* round_up_page: (n + P - 1) & ~(P - 1)
round_up_page(n) == AndNotLow(Add32(n, U32Of(P - 1)), P)

\* dec_to_ascii: "0" for 0, else the decimal digits, most significant first
RECURSIVE dec_digits(_, _)
dec_digits(v, i) ==
    IF v # Zero32 /\ i < 15
    THEN dec_digits(Div10(v), i + 1) \o <<Digits[Mod10(v) + 1]>>
    ELSE <<>>

dec_to_ascii(v) == IF v = Zero32 THEN <<"0">> ELSE dec_digits(v, 0)

-----------------------------------------------------------------------------
(* The page allocator kmalloc(size, align, &phys): a bump allocator over   *)
(* the memory [HeapBase, mem_end).  With align = 1 every region starts on  *)
(* a page boundary.  It returns 0 when the request does not fit.           *)

HeapBase == 16 * P

PagesOf(size) == size.hi * (H16 \div P) + ((size.lo + P - 1) \div P)

kmalloc(size, align, free, limit) ==
    IF PagesOf(size) <= (limit - free) \div P
    THEN [addr |-> free, phys |-> free, free |-> free + PagesOf(size) * P]
    ELSE [addr |-> 0, phys |-> 0, free |-> free]

\* hex_to_ascii: "0x" and eight hexadecimal digits
RECURSIVE hex_digits(_, _)
hex_digits(n, k) ==
    IF k = 0 THEN <<>> ELSE hex_digits(n \div 16, k - 1) \o <<HexDigits[(n % 16) + 1]>>

hex_to_ascii(n) == <<"0", "x">> \o hex_digits(n, 8)

-----------------------------------------------------------------------------
(* The directory *)

Slots == 0..(MAX_FILES - 1)
g_dir_count == MAX_FILES

FsEntry(name, size, alloc_bytes, data, phys, used) ==
    [name |-> name, size |-> size, alloc_bytes |-> alloc_bytes,
     data |-> data, phys |-> phys, used |-> used]

ZeroEntry == FsEntry(<<>>, Zero32, Zero32, 0, 0, 0)

\* what a slot of never-written memory may hold
JunkEntry == FsEntry(<<"?">>, U32Of(7), U32Of(9), 4, 8, 1)

\* contents of the memory the directory table is placed in, before fs_init:
\* all zero, or every slot stale
RamImages ==
    { [i \in Slots |-> IF i < k THEN JunkEntry ELSE ZeroEntry] : k \in {0, MAX_FILES} }

\* fs_find: index of the first used slot whose name compares equal, else -1
fs_find(dir, name) ==
    IF \E i \in 0..(g_dir_count - 1) : dir[i].used # 0 /\ strcmp(dir[i].name, name) = 0
    THEN CHOOSE i \in 0..(g_dir_count - 1) :
            /\ dir[i].used # 0 /\ strcmp(dir[i].name, name) = 0
            /\ \A j \in 0..(i - 1) : ~(dir[j].used # 0 /\ strcmp(dir[j].name, name) = 0)
    ELSE -1

\* fs_init: allocate the table and clear every slot's used flag
fs_init_used(e) == [e EXCEPT !.used = 0]

fs_init(mem, free, limit) ==
    LET a == kmalloc(U32Of(SIZEOF_FSENTRY * MAX_FILES), 1, free, limit)
    IN  [dir  |-> [i \in Slots |-> fs_init_used(mem[i])],
         addr |-> a.addr, phys |-> a.phys, free |-> a.free,
         out  |-> << "FS init. dir@", Str(hex_to_ascii(a.addr)),
                     " phys@", Str(hex_to_ascii(a.phys)), "\n" >>]

\* list_from that takes the first unused slot for the end of the table
RECURSIVE list_from_stops_at_gap(_, _)
list_from_stops_at_gap(dir, i) ==
    IF i >= g_dir_count \/ dir[i].used = 0 THEN <<>>
    ELSE << "  ", Str(dir[i].name),
            "  size=", Str(dec_to_ascii(dir[i].size)),
            "B alloc=", Str(dec_to_ascii(dir[i].alloc_bytes)),
            "B v@", Str(hex_to_ascii(dir[i].data)),
            " p@", Str(hex_to_ascii(dir[i].phys)), "\n" >>
         \o list_from_stops_at_gap(dir, i + 1)

\* cmd_list: the header, then one line per used slot in index order
RECURSIVE list_from(_, _)
list_from(dir, i) ==
    IF i >= g_dir_count THEN <<>>
    ELSE IF dir[i].used = 0 THEN list_from(dir, i + 1)
    ELSE << "  ", Str(dir[i].name),
            "  size=", Str(dec_to_ascii(dir[i].size)),
            "B alloc=", Str(dec_to_ascii(dir[i].alloc_bytes)),
            "B v@", Str(hex_to_ascii(dir[i].data)),
            " p@", Str(hex_to_ascii(dir[i].phys)), "\n" >>
         \o list_from(dir, i + 1)

cmd_list(dir) == <<"FILES:\n">> \o list_from(dir, 0)

\* first_free with the scan stopping one slot early
first_free_short(dir) ==
    IF \E i \in 0..(g_dir_count - 2) : dir[i].used = 0
    THEN CHOOSE i \in 0..(g_dir_count - 2) :
            dir[i].used = 0 /\ \A j \in 0..(i - 1) : dir[j].used # 0
    ELSE -1

\* the slot cmd_create picks: the first unused one, -1 when there is none
first_free(dir) ==
    IF \E i \in 0..(g_dir_count - 1) : dir[i].used = 0
    THEN CHOOSE i \in 0..(g_dir_count - 1) :
            dir[i].used = 0 /\ \A j \in 0..(i - 1) : dir[j].used # 0
    ELSE -1

MsgUsageCreate == "usage: CREATE <name> <size>\n"
MsgUsageRename == "usage: RENAME <old> <new>\n"
MsgUsageDel == "usage: DEL <name>\n"
MsgTooLong == "ERR: name too long\n"
MsgExists == "ERR: exists\n"
MsgSize == "ERR: size must be > 0\n"
MsgFull == "ERR: directory full\n"
MsgKmalloc == "ERR: kmalloc failed\n"
MsgNotFound == "ERR: not found\n"
MsgOK == "OK\n"
MsgUnknown == "Unknown command\n"
Prompt == "> "

Result(dir, free, msg) == [dir |-> dir, free |-> free, out |-> <<msg>>]

\* the checks of cmd_create, in the order the code makes them
create_bad_usage(name, size_str) == IsNullOrEmpty(name) \/ IsNullOrEmpty(size_str)
create_too_long_off_by_one(name) == strlen(name) > MAX_NAME
create_too_long(name) == strlen(name) >= MAX_NAME
create_exists(dir, name) == fs_find(dir, name) >= 0
create_bad_size(req) == req = Zero32

\* create_entry that leaves the slot's old addresses in place
create_entry_stale_region(old, name, req, alloc, data, phys) ==
    FsEntry(copy_bounded(old.name, name, MAX_NAME), req, alloc, old.data, old.phys, 1)

\* the record cmd_create stores in the slot
create_entry(old, name, req, alloc, data, phys) ==
    FsEntry(copy_bounded(old.name, name, MAX_NAME), req, alloc, data, phys, 1)

\* cmd_create with the slot's name written before the allocation is checked
cmd_create_early_write(dir, free, limit, name, size_str) ==
    IF create_bad_usage(name, size_str) THEN Result(dir, free, MsgUsageCreate)
    ELSE IF create_too_long(name[1]) THEN Result(dir, free, MsgTooLong)
    ELSE IF create_exists(dir, name[1]) THEN Result(dir, free, MsgExists)
    ELSE LET req == parse_uint(size_str[1]) IN
    IF create_bad_size(req) THEN Result(dir, free, MsgSize)
    ELSE LET slot == first_free(dir) IN
    IF slot < 0 THEN Result(dir, free, MsgFull)
    ELSE LET alloc == round_up_page(req)
             a == kmalloc(alloc, 1, free, limit)
             named == [dir EXCEPT ![slot].name = copy_bounded(dir[slot].name, name[1], MAX_NAME)] IN
    IF a.addr = 0 THEN Result(named, a.free, MsgKmalloc)
    ELSE Result([dir EXCEPT ![slot] =
                    create_entry(dir[slot], name[1], req, alloc, a.addr, a.phys)],
                a.free, MsgOK)

\* cmd_create with the size check made before the exists check
cmd_create_size_first(dir, free, limit, name, size_str) ==
    IF create_bad_usage(name, size_str) THEN Result(dir, free, MsgUsageCreate)
    ELSE IF create_too_long(name[1]) THEN Result(dir, free, MsgTooLong)
    ELSE LET req == parse_uint(size_str[1]) IN
    IF create_bad_size(req) THEN Result(dir, free, MsgSize)
    ELSE IF create_exists(dir, name[1]) THEN Result(dir, free, MsgExists)
    ELSE LET slot == first_free(dir) IN
    IF slot < 0 THEN Result(dir, free, MsgFull)
    ELSE LET alloc == round_up_page(req)
             a == kmalloc(alloc, 1, free, limit) IN
    IF a.addr = 0 THEN Result(dir, a.free, MsgKmalloc)
    ELSE Result([dir EXCEPT ![slot] =
                    create_entry(dir[slot], name[1], req, alloc, a.addr, a.phys)],
                a.free, MsgOK)

\* cmd_create: CREATE <name> <size>
cmd_create(dir, free, limit, name, size_str) ==
    IF create_bad_usage(name, size_str) THEN Result(dir, free, MsgUsageCreate)
    ELSE IF create_too_long(name[1]) THEN Result(dir, free, MsgTooLong)
    ELSE IF create_exists(dir, name[1]) THEN Result(dir, free, MsgExists)
    ELSE LET req == parse_uint(size_str[1]) IN
    IF create_bad_size(req) THEN Result(dir, free, MsgSize)
    ELSE LET slot == first_free(dir) IN
    IF slot < 0 THEN Result(dir, free, MsgFull)
    ELSE LET alloc == round_up_page(req)
             a == kmalloc(alloc, 1, free, limit) IN
    IF a.addr = 0 THEN Result(dir, a.free, MsgKmalloc)
    ELSE Result([dir EXCEPT ![slot] =
                    create_entry(dir[slot], name[1], req, alloc, a.addr, a.phys)],
                a.free, MsgOK)

\* rename_entry that rebuilds the record and loses its region
rename_entry_drops_region(old, newn) ==
    [old EXCEPT !.name = copy_bounded(old.name, newn, MAX_NAME), !.data = 0, !.phys = 0]

\* the name cmd_rename stores
rename_entry(old, newn) == [old EXCEPT !.name = copy_bounded(old.name, newn, MAX_NAME)]

\* cmd_rename without the check that the new name is free
cmd_rename_unchecked(dir, free, oldn, newn) ==
    IF IsNullOrEmpty(oldn) \/ IsNullOrEmpty(newn) THEN Result(dir, free, MsgUsageRename)
    ELSE IF strlen(newn[1]) >= MAX_NAME THEN Result(dir, free, MsgTooLong)
    ELSE LET idx == fs_find(dir, oldn[1]) IN
    IF idx < 0 THEN Result(dir, free, MsgNotFound)
    ELSE Result([dir EXCEPT ![idx] = rename_entry(dir[idx], newn[1])], free, MsgOK)

\* cmd_rename with the new name looked up before the old one
cmd_rename_new_first(dir, free, oldn, newn) ==
    IF IsNullOrEmpty(oldn) \/ IsNullOrEmpty(newn) THEN Result(dir, free, MsgUsageRename)
    ELSE IF strlen(newn[1]) >= MAX_NAME THEN Result(dir, free, MsgTooLong)
    ELSE IF fs_find(dir, newn[1]) >= 0 THEN Result(dir, free, MsgExists)
    ELSE LET idx == fs_find(dir, oldn[1]) IN
    IF idx < 0 THEN Result(dir, free, MsgNotFound)
    ELSE Result([dir EXCEPT ![idx] = rename_entry(dir[idx], newn[1])], free, MsgOK)

\* cmd_rename: RENAME <old> <new>
cmd_rename(dir, free, oldn, newn) ==
    IF IsNullOrEmpty(oldn) \/ IsNullOrEmpty(newn) THEN Result(dir, free, MsgUsageRename)
    ELSE IF strlen(newn[1]) >= MAX_NAME THEN Result(dir, free, MsgTooLong)
    ELSE LET idx == fs_find(dir, oldn[1]) IN
    IF idx < 0 THEN Result(dir, free, MsgNotFound)
    ELSE IF fs_find(dir, newn[1]) >= 0 THEN Result(dir, free, MsgExists)
    ELSE Result([dir EXCEPT ![idx] = rename_entry(dir[idx], newn[1])], free, MsgOK)

\* what cmd_del leaves in the slot
del_entry(old) == FsEntry(<<>>, Zero32, Zero32, 0, 0, 0)

\* cmd_del: DEL <name>
cmd_del(dir, free, name) ==
    IF IsNullOrEmpty(name) THEN Result(dir, free, MsgUsageDel)
    ELSE LET idx == fs_find(dir, name[1]) IN
    IF idx < 0 THEN Result(dir, free, MsgNotFound)
    ELSE Result([dir EXCEPT ![idx] = del_entry(dir[idx])], free, MsgOK)

\* the parse step of user_input: CMD [arg1] [arg2]
Parse(line) ==
    LET buf0 == to_upper_inplace(line) \o <<NUL>>
        cmd  == next_token(buf0, 1)
        c1   == IF cmd = 0 THEN [buf |-> buf0, p |-> 0] ELSE cut_token(buf0, cmd)
        arg1 == next_token(c1.buf, c1.p)
        c2   == IF arg1 # 0 THEN cut_token(c1.buf, arg1) ELSE c1
        arg2 == next_token(c2.buf, c2.p)
    IN  [whole |-> to_upper_inplace(line),
         cmd   |-> ArgAt(c2.buf, cmd),
         arg1  |-> ArgAt(c2.buf, arg1),
         arg2  |-> ArgAt(c2.buf, arg2)]

-----------------------------------------------------------------------------
(* Input lines *)

KW_END == <<"E","N","D">>
KW_PAGE == <<"P","A","G","E">>
KW_LIST == <<"L","I","S","T">>
KW_CREATE == <<"C","R","E","A","T","E">>
KW_RENAME == <<"R","E","N","A","M","E">>
KW_DEL == <<"D","E","L">>

Rep(c, n) == [i \in 1..n |-> c]
Words2(a, b) == a \o <<SP>> \o b
Words3(a, b, c) == a \o <<SP>> \o b \o <<SP>> \o c

NameA == <<"A">>
NameB == <<"B">>
NameX == <<"X">>
Name15 == Rep("L", MAX_NAME - 1)     \* the longest name that fits name[MAX_NAME]
Name16 == Rep("M", MAX_NAME)         \* one character too long

Num1 == <<"1">>
Num0 == <<"0">>
Num4096 == <<"4","0","9","6">>
Num4097 == <<"4","0","9","7">>
NumMax == <<"4","2","9","4","9","6","7","2","9","5">>       \* 2^32 - 1
NumWrap == <<"4","2","9","4","9","6","7","2","9","6">>      \* 2^32
NumTopPage == <<"4","2","9","4","9","6","3","2","0","0">>   \* 2^32 - 4096
NumAlpha == <<"A","B","C">>
NumMixed == <<"1","0","A","B","C">>

\* the lines typed in the free-form specification
Lines ==
    { Words3(<<"c","r","e","a","t","e">>, <<"a">>, Num4097),
      Words3(KW_CREATE, NameA, Num4097),
      Words3(KW_CREATE, NameB, NumMixed),
      Words3(KW_CREATE, NameB, NumWrap),
      Words3(KW_CREATE, NameB, NumMax),
      Words3(KW_CREATE, Name15, Num4096),
      Words3(KW_CREATE, Name16, Num1),
      Words2(KW_CREATE, NameA),
      Words3(KW_RENAME, NameA, NameB),
      Words3(KW_RENAME, NameA, NameA),
      Words3(KW_RENAME, NameA, Name16),
      Words3(KW_RENAME, NameX, Name16),
      Words3(KW_RENAME, NameX, NameB),
      Words2(KW_RENAME, NameA),
      Words2(KW_DEL, NameA),
      Words2(KW_DEL, NameB),
      <<SP, SP>> \o KW_DEL \o <<SP, SP>> \o Name15,
      KW_LIST,
      KW_PAGE,
      <<"E","n","d">>,
      <<SP>> \o KW_END,
      KW_END \o <<SP>>,
      Words3(KW_RENAME, NameA, NameB) \o <<SP>> \o NameX,
      <<>>,
      <<"F","O","O">> }

\* the fill scenario: the operator creates one file per slot, in slot order;
\* once at most one slot is left free the operator also tries a 17th name,
\* deletes, renames and asks for a page
FillName(k) == <<"F", Upper[k + 1]>>

FillCreate(k) == Words3(KW_CREATE, FillName(k), Num1)

FillAlways ==
    { Words3(KW_CREATE, FillName(MAX_FILES), Num0),
      Words3(KW_CREATE, FillName(0), Num0),
      Words3(KW_CREATE, Name16, Num1),
      KW_CREATE,
      KW_LIST,
      KW_END,
      <<>>,
      <<"F","O","O">> }

FillLate ==
    { Words3(KW_CREATE, FillName(MAX_FILES), Num1),
      Words3(KW_CREATE, FillName(MAX_FILES), NumTopPage),
      Words3(KW_RENAME, FillName(0), FillName(1)),
      Words3(KW_RENAME, FillName(1), FillName(MAX_FILES)),
      Words2(KW_DEL, FillName(0)),
      Words2(KW_DEL, FillName(1)),
      Words3(KW_RENAME, FillName(0), Name16),
      Words2(KW_RENAME, FillName(0)),
      KW_DEL,
      KW_PAGE }

UsedCount(dir) == Cardinality({i \in Slots : dir[i].used # 0})

FillLines(dir) ==
    FillAlways
    \cup (IF first_free(dir) >= 0 THEN {FillCreate(first_free(dir))} ELSE {})
    \cup (IF UsedCount(dir) >= MAX_FILES - 1 THEN FillLate ELSE {})

FillFixed == FillAlways \cup FillLate

AllLines == Lines \cup FillFixed \cup { FillCreate(k) : k \in 0..MAX_FILES }

\* the parse of every line that can be typed, computed once
Tokens == [line \in AllLines |-> Parse(line)]

-----------------------------------------------------------------------------
(* The state machine *)

\* hlt: the processor stops and takes no further keyboard input
hlt == "halted"

TypeOK ==
    /\ pc \in {"boot", "ready", hlt}
    /\ DOMAIN g_dir = Slots

InitWith(pages) ==
    /\ pc = "boot"
    /\ g_dir \in RamImages
    /\ g_dir_addr = 0
    /\ free_mem_addr = HeapBase
    /\ mem_end \in {HeapBase + n * P : n \in pages}
    /\ input = <<>>
    /\ out = <<>>

Init == InitWith({MemPages})
InitFill == InitWith({FillMemPages})

\* kernel_main: fs_init, the banner, the first listing and the first prompt
KernelMain ==
    /\ pc = "boot"
    /\ LET r == fs_init(g_dir, free_mem_addr, mem_end) IN
        /\ g_dir' = r.dir
        /\ g_dir_addr' = r.addr
        /\ free_mem_addr' = r.free
        /\ out' = r.out
                  \o << "Mini-OS ready.\n",
                        "Commands: LIST | CREATE <name> <size> | RENAME <old> <new> | DEL <name> | PAGE | END\n\n" >>
                  \o cmd_list(r.dir) \o <<"\n> ">>
    /\ pc' = "ready"
    /\ UNCHANGED <<mem_end, input>>

\* IsEnd that looks at the command token instead of the whole line
IsEnd_token(line) ==
    Tokens[line].cmd # NULL /\ strcmp(Tokens[line].cmd[1], KW_END) = 0

\* which branch of user_input a line takes
IsEnd(line) == strcmp(Tokens[line].whole, KW_END) = 0
IsPage(line) == ~IsEnd(line) /\ strcmp(Tokens[line].whole, KW_PAGE) = 0
IsParsed(line) == ~IsEnd(line) /\ ~IsPage(line)
IsCmd(line, kw) ==
    IsParsed(line) /\ Tokens[line].cmd # NULL /\ strcmp(Tokens[line].cmd[1], kw) = 0

\* user_input, line "END": the farewell, then hlt
End(line) ==
    /\ pc = "ready"
    /\ IsEnd(line)
    /\ out' = <<"Stopping the CPU. Bye!\n">>
    /\ pc' = hlt
    /\ input' = line
    /\ UNCHANGED <<g_dir, g_dir_addr, free_mem_addr, mem_end>>

\* user_input, line "PAGE": one kmalloc(1000) and its two addresses
Page(line) ==
    /\ pc = "ready"
    /\ IsPage(line)
    /\ LET a == kmalloc(U32Of(PAGE_REQ), 1, free_mem_addr, mem_end) IN
        /\ free_mem_addr' = a.free
        /\ out' = << "Page: ", Str(hex_to_ascii(a.addr)),
                     ", physical address: ", Str(hex_to_ascii(a.phys)), "\n> " >>
    /\ input' = line
    /\ UNCHANGED <<pc, g_dir, g_dir_addr, mem_end>>

\* user_input, no command token: only the prompt
Blank(line) ==
    /\ pc = "ready"
    /\ IsParsed(line) /\ Tokens[line].cmd = NULL
    /\ out' = <<Prompt>>
    /\ input' = line
    /\ UNCHANGED <<pc, g_dir, g_dir_addr, free_mem_addr, mem_end>>

\* user_input, LIST
List(line) ==
    /\ pc = "ready"
    /\ IsCmd(line, KW_LIST)
    /\ out' = cmd_list(g_dir) \o <<Prompt>>
    /\ input' = line
    /\ UNCHANGED <<pc, g_dir, g_dir_addr, free_mem_addr, mem_end>>

\* Apply that returns after an error message without reaching the prompt
Apply_error_returns(line, r) ==
    /\ g_dir' = r.dir
    /\ free_mem_addr' = r.free
    /\ out' = IF r.out = <<MsgOK>> THEN r.out \o <<Prompt>> ELSE r.out
    /\ input' = line
    /\ UNCHANGED <<pc, g_dir_addr, mem_end>>

\* a directory command's result, then the prompt
Apply(line, r) ==
    /\ g_dir' = r.dir
    /\ free_mem_addr' = r.free
    /\ out' = r.out \o <<Prompt>>
    /\ input' = line
    /\ UNCHANGED <<pc, g_dir_addr, mem_end>>

\* user_input, CREATE
Create(line) ==
    /\ pc = "ready"
    /\ IsCmd(line, KW_CREATE)
    /\ Apply(line, cmd_create(g_dir, free_mem_addr, mem_end,
                              Tokens[line].arg1, Tokens[line].arg2))

\* user_input, RENAME
Rename(line) ==
    /\ pc = "ready"
    /\ IsCmd(line, KW_RENAME)
    /\ Apply(line, cmd_rename(g_dir, free_mem_addr, Tokens[line].arg1, Tokens[line].arg2))

\* user_input, DEL
Del(line) ==
    /\ pc = "ready"
    /\ IsCmd(line, KW_DEL)
    /\ Apply(line, cmd_del(g_dir, free_mem_addr, Tokens[line].arg1))

\* user_input, any other keyword
Unknown(line) ==
    /\ pc = "ready"
    /\ IsParsed(line) /\ Tokens[line].cmd # NULL
    /\ \A kw \in {KW_LIST, KW_CREATE, KW_RENAME, KW_DEL} : strcmp(Tokens[line].cmd[1], kw) # 0
    /\ out' = <<MsgUnknown, Prompt>>
    /\ input' = line
    /\ UNCHANGED <<pc, g_dir, g_dir_addr, free_mem_addr, mem_end>>

Next ==
    \/ KernelMain
    \/ \E line \in Lines : End(line)
    \/ \E line \in Lines : Page(line)
    \/ \E line \in Lines : Blank(line)
    \/ \E line \in Lines : List(line)
    \/ \E line \in Lines : Create(line)
    \/ \E line \in Lines : Rename(line)
    \/ \E line \in Lines : Del(line)
    \/ \E line \in Lines : Unknown(line)

NextFill ==
    \/ KernelMain
    \/ \E line \in FillLines(g_dir) : End(line)
    \/ \E line \in FillLines(g_dir) : Page(line)
    \/ \E line \in FillLines(g_dir) : Blank(line)
    \/ \E line \in FillLines(g_dir) : List(line)
    \/ \E line \in FillLines(g_dir) : Create(line)
    \/ \E line \in FillLines(g_dir) : Rename(line)
    \/ \E line \in FillLines(g_dir) : Del(line)
    \/ \E line \in FillLines(g_dir) : Unknown(line)

Spec == Init /\ [][Next]_vars
SpecFill == InitFill /\ [][NextFill]_vars

-----------------------------------------------------------------------------
(* Properties *)

Used(dir, i) == dir[i].used # 0
NameActive(dir, name) == \E i \in Slots : Used(dir, i) /\ dir[i].name = name
AllSlotsUsed(dir) == \A i \in Slots : Used(dir, i)

\* the step handles a line whose command keyword is kw
Handled(kw) == pc = "ready" /\ IsCmd(input', kw)
\* the line just handled had the keyword kw
Last(kw) == pc # "boot" /\ IsCmd(input, kw)

HasArgs(line) == Tokens[line].arg1 # NULL /\ Tokens[line].arg2 # NULL
Arg1(line) == Tokens[line].arg1[1]
Arg2(line) == Tokens[line].arg2[1]

AllDigits(s) == s # <<>> /\ \A i \in 1..Len(s) : IsDigit(s[i])
PositiveDecimal(s) == AllDigits(s) /\ \E i \in 1..Len(s) : s[i] # "0"

\* alloc is the smallest multiple of P that is >= size
IsCeilPage(size, alloc) ==
    /\ alloc.lo % P = 0
    /\ Le32(size, alloc)
    /\ alloc.hi - size.hi <= 1
    /\ (alloc.hi - size.hi) * H16 + alloc.lo - size.lo < P

ErrorMsgs ==
    { MsgUsageCreate, MsgUsageRename, MsgUsageDel, MsgTooLong, MsgExists,
      MsgSize, MsgFull, MsgKmalloc, MsgNotFound }

\* C1: CREATE name size, with len(name) < 15, the name not active, size > 0, a
\* free slot and a successful allocation, answers OK and leaves an active record
\* with that name, that size and allocated_bytes = ceil(size / 4096) * 4096.
C1_CreateRoundsUp ==
    [][ ( /\ Handled(KW_CREATE) /\ HasArgs(input')
          /\ Len(Arg1(input')) < 15
          /\ ~NameActive(g_dir, Arg1(input'))
          /\ PositiveDecimal(Arg2(input'))
          /\ parse_uint(Arg2(input')) # Zero32
          /\ ~AllSlotsUsed(g_dir)
          /\ out'[1] # MsgKmalloc )
        => /\ out'[1] = MsgOK
           /\ \E i \in Slots :
                /\ Used(g_dir', i)
                /\ g_dir'[i].name = Arg1(input')
                /\ g_dir'[i].size = parse_uint(Arg2(input'))
                /\ IsCeilPage(g_dir'[i].size, g_dir'[i].alloc_bytes) ]_vars

\* C2: a CREATE, RENAME or DEL that answers with an error or usage message
\* leaves every directory slot exactly as it was.
C2_ErrorsLeaveDirectory ==
    [][ ( /\ Handled(KW_CREATE) \/ Handled(KW_RENAME) \/ Handled(KW_DEL)
          /\ out'[1] \in ErrorMsgs )
        => g_dir' = g_dir ]_vars

C2_Witness ==
    /\ Last(KW_CREATE)
    /\ out = <<MsgKmalloc, Prompt>>
    /\ \E i \in Slots : Used(g_dir, i)
    /\ \E i \in Slots : ~Used(g_dir, i)

\* C3: no two active slots hold the same name; a CREATE of an active name and
\* a RENAME of an active name to an active name answer "exists".
C3_UniqueNames ==
    /\ [](pc # "boot" =>
            \A i, j \in Slots :
                (Used(g_dir, i) /\ Used(g_dir, j) /\ g_dir[i].name = g_dir[j].name) => i = j)
    /\ [][ /\ ( /\ Handled(KW_CREATE) /\ HasArgs(input')
                /\ NameActive(g_dir, Arg1(input')) )
              => (out'[1] = MsgExists /\ g_dir' = g_dir)
           /\ ( /\ Handled(KW_RENAME) /\ HasArgs(input')
                /\ NameActive(g_dir, Arg1(input'))
                /\ NameActive(g_dir, Arg2(input')) )
              => (out'[1] = MsgExists /\ g_dir' = g_dir) ]_vars

C3_Witness ==
    /\ Last(KW_RENAME) /\ HasArgs(input)
    /\ Arg1(input) # Arg2(input)
    /\ NameActive(g_dir, Arg1(input)) /\ NameActive(g_dir, Arg2(input))
    /\ out = <<MsgExists, Prompt>>

\* C4: between commands every slot is either fully populated (active, non-empty
\* name, size > 0, a region) or fully cleared (inactive, zeroed name, zero size,
\* zero allocated bytes, no region), from directory initialization on.
FullyPopulated(e) ==
    e.used # 0 /\ e.name # <<>> /\ e.size # Zero32 /\ e.data # 0
FullyCleared(e) ==
    /\ e.used = 0 /\ e.name = <<>> /\ e.size = Zero32 /\ e.alloc_bytes = Zero32
    /\ e.data = 0 /\ e.phys = 0

C4_PopulatedOrCleared ==
    pc # "boot" => \A i \in Slots : FullyPopulated(g_dir[i]) \/ FullyCleared(g_dir[i])

\* C5: every active record's allocated_bytes is a multiple of 4096 and is >= its
\* requested size, for every 32-bit size CREATE accepts.
C5_AllocCoversSize ==
    pc # "boot" =>
        \A i \in Slots :
            Used(g_dir, i) =>
                /\ g_dir[i].alloc_bytes.lo % P = 0
                /\ Le32(g_dir[i].size, g_dir[i].alloc_bytes)

C7_NamesBelow15 ==
    pc # "boot" => \A i \in Slots : Used(g_dir, i) => Len(g_dir[i].name) < 15

\* C7 as amended: MAX_NAME is 16; CREATE and RENAME reject a (new) name of 16 or
\* more characters with "name too long" and accept one of 15, so no active
\* record has a name of 16 or more characters.
C7_NamesBelowMaxName ==
    /\ [](pc # "boot" => \A i \in Slots : Used(g_dir, i) => Len(g_dir[i].name) < MAX_NAME)
    /\ [][ /\ ( /\ Handled(KW_CREATE) \/ Handled(KW_RENAME)
                /\ HasArgs(input') )
              => /\ (Len(IF Handled(KW_CREATE) THEN Arg1(input') ELSE Arg2(input')) >= 16)
                        <=> (out'[1] = MsgTooLong)
                 /\ out'[1] = MsgTooLong => g_dir' = g_dir ]_vars

C7_Witness ==
    /\ Last(KW_CREATE)
    /\ out = <<MsgOK, Prompt>>
    /\ Len(Arg1(input)) = 15
    /\ NameActive(g_dir, Arg1(input))

\* C8: a CREATE whose size argument is 0 or contains a non-digit character
\* answers "size must be > 0" and uses no slot; a size argument that is a
\* decimal text with a value > 0 passes the size check.
C8_SizeMustBeDecimal ==
    [][ ( /\ Handled(KW_CREATE) /\ HasArgs(input')
          /\ Len(Arg1(input')) < MAX_NAME
          /\ ~NameActive(g_dir, Arg1(input')) )
        => /\ ~PositiveDecimal(Arg2(input')) => (out'[1] = MsgSize /\ g_dir' = g_dir)
           /\ PositiveDecimal(Arg2(input')) => out'[1] # MsgSize ]_vars

\* C9: CREATE reports the first failing check in the order usage, name too
\* long, exists, size must be > 0, directory full, allocation failed; the
\* allocator's state changes only when the five earlier checks pass.
C9_CreateCheckOrder ==
    [][ Handled(KW_CREATE) =>
        /\ IF ~HasArgs(input') THEN out'[1] = MsgUsageCreate
           ELSE IF Len(Arg1(input')) >= MAX_NAME THEN out'[1] = MsgTooLong
           ELSE IF NameActive(g_dir, Arg1(input')) THEN out'[1] = MsgExists
           ELSE IF parse_uint(Arg2(input')) = Zero32 THEN out'[1] = MsgSize
           ELSE IF AllSlotsUsed(g_dir) THEN out'[1] = MsgFull
           ELSE /\ out'[1] \in {MsgKmalloc, MsgOK}
                /\ out'[1] = MsgKmalloc => (g_dir' = g_dir /\ free_mem_addr' = free_mem_addr)
        /\ out'[1] \in {MsgUsageCreate, MsgTooLong, MsgExists, MsgSize, MsgFull}
              => free_mem_addr' = free_mem_addr ]_vars

C9_Witness ==
    /\ Last(KW_CREATE) /\ HasArgs(input)
    /\ ~NameActive(g_dir, Arg1(input))
    /\ parse_uint(Arg2(input)) = Zero32
    /\ AllSlotsUsed(g_dir)
    /\ out = <<MsgSize, Prompt>>

\* C10: RENAME reports the first failing check in the order usage, name too
\* long (new), not found (old), exists (new); RENAME x x of an active x answers
\* "exists"; a RENAME that answers with an error leaves the directory as it was.
C10_RenameCheckOrder ==
    [][ Handled(KW_RENAME) =>
        /\ out'[1] =
            IF ~HasArgs(input') THEN MsgUsageRename
            ELSE IF Len(Arg2(input')) >= MAX_NAME THEN MsgTooLong
            ELSE IF ~NameActive(g_dir, Arg1(input')) THEN MsgNotFound
            ELSE IF NameActive(g_dir, Arg2(input')) THEN MsgExists
            ELSE MsgOK
        /\ out'[1] # MsgOK => g_dir' = g_dir ]_vars

C10_Witness ==
    /\ Last(KW_RENAME) /\ HasArgs(input)
    /\ Arg1(input) = Arg2(input)
    /\ NameActive(g_dir, Arg1(input))
    /\ out = <<MsgExists, Prompt>>

\* C11: a successful RENAME old new changes only the name of the one slot that
\* held old; every other field and slot, and the allocator, are unchanged, and
\* afterwards new is found and old is not.
C11_RenameOnlyName ==
    [][ (Handled(KW_RENAME) /\ out'[1] = MsgOK)
        => /\ \E i \in Slots :
                /\ Used(g_dir, i) /\ g_dir[i].name = Arg1(input')
                /\ g_dir' = [g_dir EXCEPT ![i].name = Arg2(input')]
           /\ free_mem_addr' = free_mem_addr
           /\ NameActive(g_dir', Arg2(input'))
           /\ ~NameActive(g_dir', Arg1(input')) ]_vars

C11_Witness ==
    /\ Last(KW_RENAME) /\ HasArgs(input)
    /\ out = <<MsgOK, Prompt>>
    /\ \E i \in Slots :
        /\ Used(g_dir, i) /\ g_dir[i].name = Arg2(input)
        /\ g_dir[i].data # 0 /\ g_dir[i].alloc_bytes # Zero32
    /\ \E j \in Slots : Used(g_dir, j) /\ g_dir[j].name # Arg2(input)

\* C12: a successful DEL name frees exactly the slot that held name and changes
\* no other slot; a CREATE of the same name with a positive size that follows
\* it (and whose allocation does not fail) answers OK; and every successful
\* CREATE puts the record in the free slot of lowest index.
C12_DelThenCreate ==
    [][ /\ (Handled(KW_DEL) /\ out'[1] = MsgOK)
            => \E i \in Slots :
                /\ Used(g_dir, i) /\ g_dir[i].name = Arg1(input')
                /\ ~Used(g_dir', i)
                /\ \A j \in Slots \ {i} : g_dir'[j] = g_dir[j]
        /\ (Handled(KW_CREATE) /\ out'[1] = MsgOK)
            => \E i \in Slots :
                /\ ~Used(g_dir, i) /\ \A j \in 0..(i - 1) : Used(g_dir, j)
                /\ Used(g_dir', i) /\ g_dir'[i].name = Arg1(input')
                /\ \A j \in Slots \ {i} : g_dir'[j] = g_dir[j]
        /\ ( /\ Last(KW_DEL) /\ out[1] = MsgOK
             /\ Handled(KW_CREATE) /\ HasArgs(input')
             /\ Arg1(input') = Arg1(input)
             /\ PositiveDecimal(Arg2(input'))
             /\ out'[1] # MsgKmalloc )
            => out'[1] = MsgOK ]_vars

\* the used slots, and how many used slots come before slot i
ListedSlots(dir) == { i \in Slots : Used(dir, i) }
Rank(dir, i) == Cardinality({ j \in ListedSlots(dir) : j < i })

\* C13: LIST prints the header, then exactly the active records, each once, in
\* increasing slot order, then the prompt; it leaves the directory and the
\* allocator unchanged; a LIST right after a LIST prints the same output; on an
\* empty directory it prints no entry.
C13_ListSlotOrder ==
    [][ Handled(KW_LIST)
        => /\ g_dir' = g_dir /\ free_mem_addr' = free_mem_addr
           /\ Len(out') = 2 + 11 * Cardinality(ListedSlots(g_dir))
           /\ out'[1] = "FILES:\n" /\ out'[Len(out')] = Prompt
           /\ \A i \in ListedSlots(g_dir) :
                LET b == 1 + 11 * Rank(g_dir, i) IN
                /\ out'[b + 1] = "  " /\ out'[b + 2] = Str(g_dir[i].name)
                /\ out'[b + 4] = Str(dec_to_ascii(g_dir[i].size))
                /\ out'[b + 6] = Str(dec_to_ascii(g_dir[i].alloc_bytes))
                /\ out'[b + 8] = Str(hex_to_ascii(g_dir[i].data))
                /\ out'[b + 10] = Str(hex_to_ascii(g_dir[i].phys))
                /\ out'[b + 11] = "\n"
           /\ (ListedSlots(g_dir) = {}) => out' = <<"FILES:\n", Prompt>>
           /\ Last(KW_LIST) => out' = out ]_vars

\* a listing of two records whose slot order is not their creation order
C13_Witness ==
    /\ Last(KW_LIST)
    /\ ListedSlots(g_dir) = {0, 1}
    /\ g_dir[0].data > g_dir[1].data
    /\ out[3] = Str(g_dir[0].name) /\ out[14] = Str(g_dir[1].name)

\* the typed line is the three letters E, N, D in either case and nothing else
TypedEnd(line) ==
    /\ Len(line) = 3
    /\ line[1] \in {"E", "e"} /\ line[2] \in {"N", "n"} /\ line[3] \in {"D", "d"}

\* C14: a line that uppercases to exactly END prints the farewell and nothing
\* else, leaves the directory as it is and halts; no other line halts; and
\* once halted nothing changes any more.
C14_EndHalts ==
    [][ /\ pc = "ready"
            => /\ pc' = hlt <=> TypedEnd(input')
               /\ TypedEnd(input')
                    => /\ out' = <<"Stopping the CPU. Bye!\n">>
                       /\ g_dir' = g_dir /\ free_mem_addr' = free_mem_addr
        /\ pc = hlt => UNCHANGED vars ]_vars

C14_Witness ==
    /\ pc = hlt
    /\ input = <<"E", "n", "d">>
    /\ out = <<"Stopping the CPU. Bye!\n">>
    /\ \E i \in Slots : Used(g_dir, i)

\* a piece of output that shows the prompt (PAGE prints it behind a newline)
IsPrompt(s) == s \in {Prompt, "\n> "}
OnlySpaces(line) == \A k \in 1..Len(line) : line[k] = SP

\* C15: every line other than END leaves the shell ready and prints the prompt
\* exactly once, as the last piece of its output; a blank line prints the
\* prompt and nothing else; END prints no prompt.
C15_PromptOnceLast ==
    [][ pc = "ready"
        => /\ ~TypedEnd(input')
                => /\ pc' = "ready"
                   /\ out' # <<>>
                   /\ IsPrompt(out'[Len(out')])
                   /\ \A k \in 1..(Len(out') - 1) : ~IsPrompt(out'[k])
           /\ OnlySpaces(input') => out' = <<Prompt>>
           /\ TypedEnd(input') => \A k \in 1..Len(out') : ~IsPrompt(out'[k]) ]_vars

C15_Witness ==
    /\ pc = "ready"
    /\ Last(KW_RENAME) /\ ~HasArgs(input)
    /\ out = <<MsgUsageRename, Prompt>>

\* two typed lines that differ at most in the case of their letters
SameButCase(l1, l2) ==
    /\ Len(l1) = Len(l2)
    /\ \A k \in 1..Len(l1) :
        \/ l1[k] = l2[k]
        \/ \E j \in 1..26 : {l1[k], l2[k]} = {Lower[j], Upper[j]}

LowerSet == { Lower[j] : j \in 1..26 }
HasLower(s) == \E k \in 1..Len(s) : s[k] \in LowerSet

\* lines that differ only in case are parsed into the same keyword and arguments
CaseFolded ==
    \A l1, l2 \in Lines : SameButCase(l1, l2) => Tokens[l1] = Tokens[l2]

\* C16: lines that differ only in letter case reach the dispatcher as the same
\* keyword and arguments; a CREATE that repeats a successful CREATE in another
\* case answers "exists" and changes nothing; and no active record's name
\* contains a lowercase letter.
C16_CaseInsensitive ==
    [][ pc = "ready"
        => /\ CaseFolded
           /\ ( /\ Last(KW_CREATE) /\ out = <<MsgOK, Prompt>>
                /\ SameButCase(input, input') )
                => out' = <<MsgExists, Prompt>> /\ g_dir' = g_dir
           /\ \A i \in Slots : Used(g_dir', i) => ~HasLower(g_dir'[i].name) ]_vars

\* a record created by a line typed in lowercase, and the same line in
\* uppercase refused
C16_Witness ==
    /\ pc = "ready"
    /\ input = Words3(KW_CREATE, NameA, Num4097)
    /\ out = <<MsgExists, Prompt>>
    /\ \E i \in Slots :
        /\ Used(g_dir, i) /\ g_dir[i].name = NameA
        /\ g_dir[i].size = parse_uint(Num4097)

HasSpace(s) == \E k \in 1..Len(s) : s[k] = SP
TokenHasSpace(a) == a # NULL /\ HasSpace(a[1])

\* C17: none of the three tokens of the line just handled (keyword, argument
\* 1, argument 2) contains a space, and no active record's name contains a
\* space.
C17_TokensHaveNoSpace ==
    /\ (pc = "ready" /\ input \in AllLines /\ IsParsed(input))
        => /\ ~TokenHasSpace(Tokens[input].cmd)
           /\ ~TokenHasSpace(Tokens[input].arg1)
           /\ ~TokenHasSpace(Tokens[input].arg2)
    /\ \A i \in Slots : Used(g_dir, i) => ~HasSpace(g_dir[i].name)

\* the allocator has no room left for a request of size bytes
AllocFails(size) == kmalloc(size, 1, free_mem_addr, mem_end).addr = 0

\* C18: a failed allocation is reported as an error and its null address is
\* never used or shown as a region: a CREATE whose allocation fails answers
\* "kmalloc failed" and leaves the directory unchanged, a PAGE whose allocation
\* fails prints no page address, and a failed allocation of the table at
\* initialization is not announced as the directory's address.
C18_AllocFailureReported ==
    [][ /\ ( /\ Handled(KW_CREATE) /\ out'[1] \notin ErrorMsgs \ {MsgKmalloc}
             /\ AllocFails(round_up_page(parse_uint(Arg2(input')))) )
            => out' = <<MsgKmalloc, Prompt>> /\ g_dir' = g_dir
        /\ ( /\ pc = "ready" /\ input' \in AllLines /\ IsPage(input')
             /\ AllocFails(U32Of(PAGE_REQ)) )
            => out'[1] # "Page: "
        /\ (pc = "boot" /\ AllocFails(U32Of(SIZEOF_FSENTRY * MAX_FILES)))
            => out'[1] # "FS init. dir@" ]_vars

\* the lines DEL <name> and RENAME <name> X hand name to the command as argument 1
Addressable(name) ==
    /\ Parse(Words2(KW_DEL, name)).arg1 = <<name>>
    /\ Parse(Words3(KW_RENAME, name, NameX)).arg1 = <<name>>

\* C19: every active record can be named by a command line: DEL <name> and
\* RENAME <name> <new> reach cmd_del and cmd_rename with the stored name as
\* argument 1.
C19_RecordsAddressable ==
    \A i \in Slots : Used(g_dir, i) => Addressable(g_dir[i].name)

\* the region [data, data + alloc_bytes) of a record, and the directory table
RegionEnd(e) == e.data + e.alloc_bytes.hi * H16 + e.alloc_bytes.lo
TableEnd == g_dir_addr + SIZEOF_FSENTRY * MAX_FILES
Disjoint(e, f) == RegionEnd(e) <= f.data \/ RegionEnd(f) <= e.data

\* every active region lies behind the table and below the allocator's next
\* free address, and no two of them overlap
RegionsApart(dir, free) ==
    \A i \in Slots : Used(dir, i) =>
        /\ TableEnd <= dir[i].data /\ RegionEnd(dir[i]) <= free
        /\ \A j \in Slots : (j # i /\ Used(dir, j)) => Disjoint(dir[i], dir[j])

\* C20: after every step the regions of the active records are pairwise
\* disjoint, lie behind the directory table and below the allocator's next free
\* address; that address never moves back, DEL and RENAME leave it alone, and
\* PAGE hands out the region that starts at it, so a PAGE region never
\* overlaps a record's region, earlier or later.
C20_RegionsExclusive ==
    [][ /\ free_mem_addr' >= free_mem_addr
        /\ pc = "ready"
            => /\ RegionsApart(g_dir', free_mem_addr')
               /\ free_mem_addr' # free_mem_addr
                    => ~(Handled(KW_DEL) \/ Handled(KW_RENAME))
               /\ (out'[1] = "Page: " /\ ~AllocFails(U32Of(PAGE_REQ)))
                    => /\ out'[2] = Str(hex_to_ascii(free_mem_addr))
                       /\ free_mem_addr' >= free_mem_addr + PAGE_REQ
                       /\ g_dir' = g_dir ]_vars

\* PAGE has just handed out the region right behind a record's region
C20_Witness ==
    /\ pc = "ready"
    /\ out[1] = "Page: "
    /\ \E i \in Slots :
        /\ Used(g_dir, i) /\ g_dir[i].alloc_bytes # Zero32
        /\ out[2] = Str(hex_to_ascii(RegionEnd(g_dir[i])))
    /\ RegionsApart(g_dir, free_mem_addr)

====
